---------------------------- MODULE Spec2Model ----------------------------
(***************************************************************************)
(* Model of ratched's certificate forgery engine (certforgery.c): the four *)
(* long-lived cryptographic objects (root CA certificate, root CA key,     *)
(* TLS server key, TLS client key), the server certificate cache and the   *)
(* reference counts of every X509 / EVP_PKEY object the engine touches.    *)
(*                                                                         *)
(* Pointers are modelled as options: <<>> is NULL, <<x>> points at x.      *)
(* OpenSSL objects are modelled by their reference count and by the number *)
(* of times the count dropped to zero (the number of deallocations).       *)
(***************************************************************************)
EXTENDS Integers, Sequences, FiniteSets, TLC

(***************************************************************************)
(* Bounds of the model                                                     *)
(***************************************************************************)
\* number of leaf certificates openssl_create_certificate may hand out
MaxCerts == 2
\* number of handles on leaf certificates callers may hold at the same time
MaxCertHandles == 2
\* number of handles on the long-lived objects callers may hold at the same time
MaxKeyHandles == 2
\* number of connection threads that call forge_certificate_for_server
MaxThreads == 2

(***************************************************************************)
(* Input domains                                                           *)
(***************************************************************************)
NULL == <<>>
Ptr(x) == <<x>>
Deref(p) == p[1]

\* hostnames the proxy may observe
Hostnames == {"a.com", "b.com"}
HostnameArgs == {NULL} \cup {Ptr(h) : h \in Hostnames}
\* 10.0.0.1 and 10.0.0.2 as uint32 in network byte order on a little-endian host
Addrs == {16777226, 33554442}
Identities == HostnameArgs \X Addrs
\* the connections the proxy sees: with and without a hostname, one address
\* under two hostnames, one hostname at two addresses
Requests == {<<NULL, 16777226>>, <<NULL, 33554442>>, <<Ptr("a.com"), 16777226>>,
             <<Ptr("a.com"), 33554442>>, <<Ptr("b.com"), 16777226>>}

\* the files certforgery_init derives under the configuration directory
KeyFiles == {"root.key", "server.key", "client.key"}
Files == KeyFiles \cup {"root.crt"}

\* the long-lived objects: what root_ca, root_ca_key, server_key, client_key point at
StaticObjs == {"root_ca", "root_ca_key", "server_key", "client_key"}
CertIds == 1..MaxCerts
Threads == 1..MaxThreads
\* the connections the threads handle: one address, with and without hostname
ThreadRequests == {<<NULL, 16777226>>, <<Ptr("a.com"), 16777226>>}

VARIABLES
    phase,              \* lifecycle of the process: "boot", "running", "init_failed", "down", "crashed"
    init_ret,           \* what certforgery_init returned: "none" before it ran, "true", "false"
    key_loads,          \* number of calls of openssl_load_stored_key
    root_ca,            \* static X509 *root_ca
    root_ca_key,        \* static EVP_PKEY *root_ca_key
    server_key,         \* static EVP_PKEY *server_key
    client_key,         \* static EVP_PKEY *client_key
    server_certificates,\* the array server_certificates[0 .. server_certificate_cnt - 1]
    refcnt,             \* reference count of each long-lived object
    frees,              \* number of times each long-lived object's count dropped to zero
    held,               \* handles on each long-lived object held by callers
    next_cert,          \* number of leaf certificates created so far
    cert_refcnt,        \* reference count of each leaf certificate
    cert_frees,         \* number of times each leaf certificate's count dropped to zero
    cert_held,          \* handles on each leaf certificate held by callers
    cert_spec,          \* per cached leaf certificate: the specification it was built from
    thr,                \* per thread: where it is in forge_certificate_for_server, its locals
    lock,               \* the thread inside the critical section, NULL if none
    returned,           \* per requested identity: the certificates forge_certificate_for_server returned
    ev                  \* the last call, what the environment answered and its outcome

vars == <<phase, init_ret, key_loads, root_ca, root_ca_key, server_key,
          client_key, server_certificates, refcnt, frees, held, next_cert,
          cert_refcnt, cert_frees, cert_held, cert_spec, thr, lock, returned,
          ev>>

statics == <<root_ca, root_ca_key, server_key, client_key>>
leafs == <<next_cert, cert_refcnt, cert_frees, cert_held, cert_spec>>
threads == <<thr, lock>>

server_certificate_cnt == Len(server_certificates)

\* handles on leaf certificates 1..n callers hold at the moment
RECURSIVE CertHandles(_)
CertHandles(n) == IF n = 0 THEN 0 ELSE cert_held[n] + CertHandles(n - 1)

\* handles on the long-lived objects callers hold at the moment
KeyHandles ==
    held["root_ca"] + held["root_ca_key"] + held["server_key"] + held["client_key"]

\* the answers of the external primitives certforgery_init calls, as failures:
\* here none fails
NoEnv == [makedirs_failed |-> FALSE, path_failed |-> [f \in Files |-> FALSE],
          key_failed |-> [f \in KeyFiles |-> FALSE], cert_failed |-> FALSE]

\* the last call: its name, its arguments (forge_certificate_for_server), the way it
\* went, the leaf certificate it returned or released (0: none), whether it returned
\* NULL or false, what the external primitives answered (certforgery_init) and
\* the specification handed to openssl_create_certificate (NULL: it was not called)
Event(op, hostname, ipv4_nbo, path, cert, null) ==
    [op |-> op, hostname |-> hostname, ipv4_nbo |-> ipv4_nbo, path |-> path,
     cert |-> cert, null |-> null, env |-> NoEnv, certspec |-> NULL]

NoEvent == Event("none", NULL, 0, "", 0, TRUE)

\* a thread outside forge_certificate_for_server; inside, pc is the next step
\* ("lookup", "create", "insert", "return"), entry the index get_server_certificate
\* or add_server_certificate returned (0: NULL), cert the certificate it built
\* (0: none) and cnt the length of the array when entry was obtained
Idle == [pc |-> "idle", hostname |-> NULL, ipv4_nbo |-> 0, entry |-> 0, cert |-> 0,
         cnt |-> 0]

Init ==
    /\ phase = "boot"
    /\ init_ret = "none"
    /\ key_loads = 0
    /\ root_ca = NULL
    /\ root_ca_key = NULL
    /\ server_key = NULL
    /\ client_key = NULL
    /\ server_certificates = <<>>
    /\ refcnt = [o \in StaticObjs |-> 0]
    /\ frees = [o \in StaticObjs |-> 0]
    /\ held = [o \in StaticObjs |-> 0]
    /\ next_cert = 0
    /\ cert_refcnt = [c \in CertIds |-> 0]
    /\ cert_frees = [c \in CertIds |-> 0]
    /\ cert_held = [c \in CertIds |-> 0]
    /\ cert_spec = [c \in CertIds |-> NULL]
    /\ thr = [t \in Threads |-> Idle]
    /\ lock = NULL
    /\ returned = [id \in Identities |-> {}]
    /\ ev = NoEvent

(***************************************************************************)
(* The cache                                                               *)
(***************************************************************************)
\* one comparison of get_server_certificate's scan
EntryMatches(e, hostname, ipv4_nbo) ==
    IF hostname = NULL
    THEN e.hostname = NULL /\ ipv4_nbo = e.ipv4_nbo
    ELSE e.hostname # NULL /\ Deref(hostname) = Deref(e.hostname) /\ ipv4_nbo = e.ipv4_nbo

\* index (1-based) of the first matching entry, 0 for NULL
get_server_certificate(hostname, ipv4_nbo) ==
    LET hits == {i \in 1..server_certificate_cnt :
                    EntryMatches(server_certificates[i], hostname, ipv4_nbo)}
    IN IF hits = {} THEN 0 ELSE CHOOSE i \in hits : \A j \in hits : i <= j

\* strdup(hostname): a copy, or NULL when the allocation fails
strdup(hostname, strdup_ok) == IF strdup_ok THEN hostname ELSE NULL

\* mutant: the new entry is stored at index 0, the old entries move up
add_server_certificate_AtFront(hostname, ipv4_nbo, cert, strdup_ok) ==
    <<[hostname |-> IF hostname # NULL THEN strdup(hostname, strdup_ok) ELSE NULL,
       ipv4_nbo |-> ipv4_nbo,
       certificate |-> cert]>> \o server_certificates

\* the array after add_server_certificate, realloc having succeeded
add_server_certificate(hostname, ipv4_nbo, cert, strdup_ok) ==
    Append(server_certificates,
           [hostname |-> IF hostname # NULL THEN strdup(hostname, strdup_ok) ELSE NULL,
            ipv4_nbo |-> ipv4_nbo,
            certificate |-> cert])

(***************************************************************************)
(* Reference counting                                                      *)
(***************************************************************************)
\* mutant: the pointer is returned without a reference of its own
UpRef_Missing(count) == count
\* X509_up_ref / EVP_PKEY_up_ref
UpRef(count) == count + 1
\* X509_free / EVP_PKEY_free: one reference less
DownRef(count) == count - 1
\* whether a release that leaves `count` deallocates the object
Deallocates(count) == count = 0

(***************************************************************************)
(* certforgery_init                                                        *)
(*                                                                         *)
(* env holds the answers of the external primitives: env.makedirs_failed   *)
(* (makedirs could not create the configuration directory),                *)
(* env.path_failed[f] (strxcat could not build the path of file f),        *)
(* env.key_failed[f] (openssl_load_stored_key returned NULL for f),        *)
(* env.cert_failed (openssl_load_stored_certificate returned NULL).        *)
(***************************************************************************)
InitEnvs ==
    [makedirs_failed : BOOLEAN, path_failed : [Files -> BOOLEAN],
     key_failed : [KeyFiles -> BOOLEAN], cert_failed : BOOLEAN]

\* makedirs(pgm_options->config_dir): its result is dropped, the function goes on
AfterMakedirs(env) == TRUE

\* get_root_key_filename succeeded: openssl_load_stored_key is called for root.key
RootKeyTried(env) == AfterMakedirs(env) /\ ~env.path_failed["root.key"]
RootKeyLoaded(env) == RootKeyTried(env) /\ ~env.key_failed["root.key"]
\* if (!root_ca_key) return false
RootKeyChecked(env) == RootKeyLoaded(env)

ServerKeyTried(env) == RootKeyChecked(env) /\ ~env.path_failed["server.key"]
ServerKeyLoaded(env) == ServerKeyTried(env) /\ ~env.key_failed["server.key"]
\* mutant: the test of server_key is missing
ServerKeyChecked_NoTest(env) == ServerKeyTried(env)
\* if (!server_key) return false
ServerKeyChecked(env) == ServerKeyLoaded(env)

ClientKeyTried(env) == ServerKeyChecked(env) /\ ~env.path_failed["client.key"]
ClientKeyLoaded(env) == ClientKeyTried(env) /\ ~env.key_failed["client.key"]
\* if (!client_key) return false
ClientKeyChecked(env) == ClientKeyLoaded(env)

\* get_root_ca_filename succeeded: openssl_load_stored_certificate is called
RootCertTried(env) == ClientKeyChecked(env) /\ ~env.path_failed["root.crt"]
RootCertLoaded(env) == RootCertTried(env) /\ ~env.cert_failed
\* root_ca is not tested: log_cert, then return true
RootCertChecked(env) == RootCertTried(env)

InitResult(env) == RootCertChecked(env)

Loaded(env) ==
    [o \in StaticObjs |->
        CASE o = "root_ca_key" -> RootKeyLoaded(env)
          [] o = "server_key" -> ServerKeyLoaded(env)
          [] o = "client_key" -> ClientKeyLoaded(env)
          [] o = "root_ca" -> RootCertLoaded(env)]

PtrIf(b, o) == IF b THEN Ptr(o) ELSE NULL
BoolCount(b) == IF b THEN 1 ELSE 0

InitWith(env) ==
    /\ key_loads' = BoolCount(RootKeyTried(env)) + BoolCount(ServerKeyTried(env))
                    + BoolCount(ClientKeyTried(env))
    /\ root_ca_key' = PtrIf(Loaded(env)["root_ca_key"], "root_ca_key")
    /\ server_key' = PtrIf(Loaded(env)["server_key"], "server_key")
    /\ client_key' = PtrIf(Loaded(env)["client_key"], "client_key")
    /\ root_ca' = PtrIf(Loaded(env)["root_ca"], "root_ca")
    /\ refcnt' = [o \in StaticObjs |-> BoolCount(Loaded(env)[o])]
    /\ init_ret' = IF InitResult(env) THEN "true" ELSE "false"
    /\ phase' = IF InitResult(env) THEN "running" ELSE "init_failed"
    /\ ev' = [Event("certforgery_init", NULL, 0, "", 0, ~InitResult(env))
                EXCEPT !.env = env]
    /\ UNCHANGED <<threads, server_certificates, frees, held, leafs, returned>>

\* runs once, at startup, before anything else
certforgery_init ==
    /\ phase = "boot"
    /\ \E env \in InitEnvs : InitWith(env)

(***************************************************************************)
(* The accessors                                                           *)
(***************************************************************************)
\* X509_up_ref(p); return p;  for a non-NULL p
GetStatic(op, o) ==
    /\ refcnt' = [refcnt EXCEPT ![o] = UpRef(@)]
    /\ held' = [held EXCEPT ![o] = @ + 1]
    /\ ev' = Event(op, NULL, 0, "", 0, FALSE)
    /\ UNCHANGED <<threads, phase, init_ret, key_loads, statics,
                   server_certificates, frees, leafs, returned>>

\* X509_up_ref(NULL) dereferences a null pointer: the process dies, or (a build
\* whose up_ref tolerates NULL) the call returns NULL and changes nothing
GetNull(op, crash) ==
    /\ phase' = IF crash THEN "crashed" ELSE phase
    /\ ev' = Event(op, NULL, 0, "", 0, TRUE)
    /\ UNCHANGED <<threads, init_ret, key_loads, statics, server_certificates,
                   refcnt, frees, held, leafs, returned>>

Accessor(op, p, crash) ==
    /\ phase = "running"
    /\ KeyHandles < MaxKeyHandles
    /\ IF p = NULL THEN GetNull(op, crash) ELSE GetStatic(op, Deref(p)) /\ ~crash

get_forged_root_certificate(crash) ==
    Accessor("get_forged_root_certificate", root_ca, crash)

get_forged_root_key(crash) ==
    Accessor("get_forged_root_key", root_ca_key, crash)

get_tls_server_key(crash) ==
    Accessor("get_tls_server_key", server_key, crash)

get_tls_client_key(crash) ==
    Accessor("get_tls_client_key", client_key, crash)

(***************************************************************************)
(* certforgery_deinit                                                      *)
(***************************************************************************)
\* mutant: teardown destroys the object whoever still holds it
FreeStatic_Destroys(rc, p) ==
    IF p = NULL THEN rc ELSE [rc EXCEPT ![Deref(p)] = 0]

\* X509_free(p) / EVP_PKEY_free(p): nothing for NULL, else one reference less
FreeStatic(rc, p) ==
    IF p = NULL THEN rc ELSE [rc EXCEPT ![Deref(p)] = DownRef(@)]

CountFrees(fr, before, after) ==
    [o \in StaticObjs |->
        IF after[o] # before[o] /\ Deallocates(after[o]) THEN fr[o] + 1 ELSE fr[o]]

DeinitRefs ==
    FreeStatic(FreeStatic(FreeStatic(FreeStatic(refcnt, root_ca), root_ca_key),
                          server_key), client_key)

certforgery_deinit ==
    /\ phase = "running"
    /\ phase' = "down"
    /\ refcnt' = DeinitRefs
    /\ frees' = CountFrees(frees, refcnt, refcnt')
    /\ ev' = Event("certforgery_deinit", NULL, 0, "", 0, TRUE)
    /\ UNCHANGED <<threads, init_ret, key_loads, statics, server_certificates,
                   held, leafs, returned>>

(***************************************************************************)
(* The callers: a holder of a handle releases it (X509_free, EVP_PKEY_free)*)
(***************************************************************************)
ReleaseStatic(o) ==
    /\ phase \in {"running", "down"}
    /\ held[o] > 0
    /\ held' = [held EXCEPT ![o] = @ - 1]
    /\ refcnt' = [refcnt EXCEPT ![o] = DownRef(@)]
    /\ frees' = CountFrees(frees, refcnt, refcnt')
    /\ ev' = Event("release", NULL, 0, o, 0, TRUE)
    /\ UNCHANGED <<threads, phase, init_ret, key_loads, statics,
                   server_certificates, leafs, returned>>

ReleaseCert(c) ==
    /\ phase \in {"running", "down"}
    /\ cert_held[c] > 0
    /\ cert_held' = [cert_held EXCEPT ![c] = @ - 1]
    /\ cert_refcnt' = [cert_refcnt EXCEPT ![c] = DownRef(@)]
    /\ cert_frees' = [cert_frees EXCEPT ![c] =
                        IF Deallocates(cert_refcnt'[c]) THEN @ + 1 ELSE @]
    /\ ev' = Event("release", NULL, 0, "leaf", c, TRUE)
    /\ UNCHANGED <<threads, phase, init_ret, key_loads, statics,
                   server_certificates, refcnt, frees, held, next_cert,
                   cert_spec, returned>>

(***************************************************************************)
(* forge_certificate_for_server                                            *)
(*                                                                         *)
(* create_ok: openssl_create_certificate returned a certificate;           *)
(* realloc_ok: realloc in add_server_certificate succeeded;                *)
(* strdup_ok: strdup in add_server_certificate succeeded.                  *)
(***************************************************************************)
\* the text of "%d" for a byte
Digits == <<"0", "1", "2", "3", "4", "5", "6", "7", "8", "9">>

RECURSIVE DecimalText(_)
DecimalText(n) ==
    IF n < 10 THEN Digits[n + 1] ELSE DecimalText(n \div 10) \o Digits[(n % 10) + 1]

\* FMT_IPv4: the four bytes of the address in memory order, the lowest first
Octet(ipv4_nbo, i) == (ipv4_nbo \div (256 ^ i)) % 256

\* snprintf(ipv4, sizeof(ipv4), PRI_IPv4, FMT_IPv4(ipv4_nbo)): at most 15
\* characters, which char ipv4[16] holds
DottedDecimal(ipv4_nbo) ==
    DecimalText(Octet(ipv4_nbo, 0)) \o "." \o DecimalText(Octet(ipv4_nbo, 1)) \o "."
        \o DecimalText(Octet(ipv4_nbo, 2)) \o "." \o DecimalText(Octet(ipv4_nbo, 3))

\* mutant: the common name is the hostname in both branches
SubjectNames_HostnameOnly(hostname, ipv4_nbo) ==
    [subject_alternative_dns_hostname |-> hostname, common_name |-> hostname]

\* the names of the subject: the hostname where there is one, else the address
\* as text and no DNS name
SubjectNames(hostname, ipv4_nbo) ==
    IF hostname # NULL
    THEN [subject_alternative_dns_hostname |-> hostname, common_name |-> hostname]
    ELSE [subject_alternative_dns_hostname |-> NULL,
          common_name |-> Ptr(DottedDecimal(ipv4_nbo))]

\* who signs the leaf: the root CA key, under the root certificate
Issuer ==
    [issuer_privkey |-> root_ca_key, issuer_certificate |-> root_ca]

\* struct certificatespec_t certspec of a miss (the fields taken from
\* pgm_options and the description are left out)
certspec(hostname, ipv4_nbo) ==
    [subject_pubkey |-> server_key,
     issuer_privkey |-> Issuer.issuer_privkey,
     issuer_certificate |-> Issuer.issuer_certificate,
     subject_alternative_ipv4_address |-> ipv4_nbo,
     is_ca_certificate |-> FALSE,
     validity_predate_seconds |-> 86400,
     validity_seconds |-> 86400 * 365 * 1,
     subject_alternative_dns_hostname |->
         SubjectNames(hostname, ipv4_nbo).subject_alternative_dns_hostname,
     common_name |-> SubjectNames(hostname, ipv4_nbo).common_name]

\* mutant: the certificate is constructed before the cache is looked at
CreateArg_Always(entry, hostname, ipv4_nbo) == Ptr(certspec(hostname, ipv4_nbo))

\* the argument of openssl_create_certificate, NULL when it is not called:
\* it is called only without an entry
CreateArg(entry, hostname, ipv4_nbo) ==
    IF entry = 0 THEN Ptr(certspec(hostname, ipv4_nbo)) ELSE NULL

\* which way the call goes; entry is get_server_certificate's result
ForgePath(entry, create_ok, realloc_ok) ==
    IF entry # 0 THEN "hit"
    ELSE IF ~create_ok THEN "create_failed"
    ELSE IF ~realloc_ok THEN "insert_failed"
    ELSE "inserted"

\* mutant: the test "if (cert)" is missing, a NULL certificate is stored
CacheAfter_NoCertTest(path, hostname, ipv4_nbo, cert, strdup_ok) ==
    IF path \in {"inserted", "create_failed"}
    THEN add_server_certificate(hostname, ipv4_nbo, IF path = "inserted" THEN cert ELSE 0,
                                strdup_ok)
    ELSE server_certificates

\* mutant: the entry is kept although add_server_certificate reported failure
CacheAfter_FailedInsertKept(path, hostname, ipv4_nbo, cert, strdup_ok) ==
    IF path \in {"inserted", "insert_failed"}
    THEN add_server_certificate(hostname, ipv4_nbo, cert, strdup_ok)
    ELSE server_certificates

\* the array after the call: add_server_certificate runs only with a certificate
CacheAfter(path, hostname, ipv4_nbo, cert, strdup_ok) ==
    IF path = "inserted"
    THEN add_server_certificate(hostname, ipv4_nbo, cert, strdup_ok)
    ELSE server_certificates

\* mutant: the certificate of a new entry is returned without X509_up_ref
LeafRefAfter_NoUpRefOnInsert(path, count) ==
    CASE path = "hit" -> UpRef(count)
      [] path = "inserted" -> 1
      [] path = "insert_failed" -> DownRef(1)
      [] OTHER -> count

\* mutant: X509_free(cert) is missing where the insertion failed
LeafRefAfter_NoFree(path, count) ==
    CASE path = "hit" -> UpRef(count)
      [] path = "inserted" -> UpRef(1)
      [] path = "insert_failed" -> 1
      [] OTHER -> count

\* the reference count of the certificate the call deals with, after the call:
\* a new certificate starts at 1; X509_free(cert) when the insertion failed,
\* X509_up_ref(entry->certificate) when there is an entry
LeafRefAfter(path, count) ==
    CASE path = "hit" -> UpRef(count)
      [] path = "inserted" -> UpRef(1)
      [] path = "insert_failed" -> DownRef(1)
      [] OTHER -> count

\* the returned pointer: entry->certificate, or NULL (0) without an entry
ForgeReturn(path, cert) ==
    IF path \in {"hit", "inserted"} THEN cert ELSE 0

forge_certificate_for_server(hostname, ipv4_nbo, create_ok, realloc_ok, strdup_ok) ==
    LET entry == get_server_certificate(hostname, ipv4_nbo)
        path == ForgePath(entry, create_ok, realloc_ok)
        created == path \in {"insert_failed", "inserted"}
        cert == IF entry # 0 THEN server_certificates[entry].certificate
                ELSE next_cert + 1
        ret == ForgeReturn(path, cert)
        arg == CreateArg(entry, hostname, ipv4_nbo)
    IN  /\ phase = "running"
        /\ CertHandles(MaxCerts) < MaxCertHandles
        /\ created => next_cert < MaxCerts
        \* an answer that is never asked for is fixed, not chosen
        /\ path = "hit" => create_ok
        /\ path # "insert_failed" => realloc_ok
        /\ (path # "inserted" \/ hostname = NULL) => strdup_ok
        /\ next_cert' = IF created THEN next_cert + 1 ELSE next_cert
        /\ server_certificates' = CacheAfter(path, hostname, ipv4_nbo, cert, strdup_ok)
        /\ cert_refcnt' = IF path = "create_failed" THEN cert_refcnt
                          ELSE [cert_refcnt EXCEPT ![cert] = LeafRefAfter(path, @)]
        /\ cert_frees' = IF path = "insert_failed" /\ Deallocates(cert_refcnt'[cert])
                         THEN [cert_frees EXCEPT ![cert] = @ + 1]
                         ELSE cert_frees
        /\ cert_held' = IF ret # 0 THEN [cert_held EXCEPT ![ret] = @ + 1] ELSE cert_held
        /\ cert_spec' = IF path = "inserted" THEN [cert_spec EXCEPT ![cert] = arg]
                        ELSE cert_spec
        /\ returned' = IF ret # 0
                       THEN [returned EXCEPT ![<<hostname, ipv4_nbo>>] = @ \cup {ret}]
                       ELSE returned
        /\ ev' = [Event("forge_certificate_for_server", hostname, ipv4_nbo, path,
                        ret, ret = 0)
                    EXCEPT !.certspec = arg]
        /\ UNCHANGED <<threads, phase, init_ret, key_loads, statics, refcnt,
                       frees, held>>

(***************************************************************************)
(* forge_certificate_for_server called by several threads                  *)
(*                                                                         *)
(* The call is cut where it touches the array: the lookup, the             *)
(* construction, the insertion, and the return through the entry pointer.  *)
(* The code takes no lock. An access to the array that overlaps another    *)
(* thread's add_server_certificate, and a read through an entry pointer    *)
(* that a later realloc has invalidated, are undefined: they give what the *)
(* sequential code gives, or the process crashes.                          *)
(***************************************************************************)
\* calls that have not returned yet
InFlight == Cardinality({t \in Threads : thr[t].pc # "idle"})

\* another thread is at one of the steps
OtherAt(t, steps) == \E u \in Threads \ {t} : thr[u].pc \in steps

\* the process dies of undefined behaviour
Crash ==
    /\ phase' = "crashed"
    /\ UNCHANGED <<init_ret, key_loads, statics, server_certificates, refcnt, frees,
                   held, leafs, threads, returned, ev>>

\* thread t calls forge_certificate_for_server(hostname, ipv4_nbo); with_lock:
\* the caller takes the lock over the cache first
Enter(t, hostname, ipv4_nbo, with_lock) ==
    /\ phase = "running"
    /\ thr[t].pc = "idle"
    /\ CertHandles(MaxCerts) + InFlight < MaxCertHandles
    /\ with_lock => lock = NULL
    /\ lock' = IF with_lock THEN Ptr(t) ELSE lock
    /\ thr' = [thr EXCEPT ![t] = [Idle EXCEPT !.pc = "lookup", !.hostname = hostname,
                                              !.ipv4_nbo = ipv4_nbo]]
    /\ UNCHANGED <<phase, init_ret, key_loads, statics, server_certificates, refcnt,
                   frees, held, leafs, returned, ev>>

\* entry = get_server_certificate(hostname, ipv4_nbo)
Lookup(t, race) ==
    /\ phase = "running"
    /\ thr[t].pc = "lookup"
    /\ race => OtherAt(t, {"insert"})
    /\ IF race THEN Crash
       ELSE LET entry == get_server_certificate(thr[t].hostname, thr[t].ipv4_nbo)
            IN  /\ thr' = [thr EXCEPT ![t].entry = entry,
                                      ![t].cnt = server_certificate_cnt,
                                      ![t].pc = IF entry # 0 THEN "return" ELSE "create"]
                /\ UNCHANGED <<phase, init_ret, key_loads, statics, server_certificates,
                               refcnt, frees, held, leafs, lock, returned, ev>>

\* cert = openssl_create_certificate(&certspec): a new object with one reference
Create(t, create_ok) ==
    /\ phase = "running"
    /\ thr[t].pc = "create"
    /\ create_ok => next_cert < MaxCerts
    /\ next_cert' = IF create_ok THEN next_cert + 1 ELSE next_cert
    /\ cert_refcnt' = IF create_ok THEN [cert_refcnt EXCEPT ![next_cert + 1] = 1]
                      ELSE cert_refcnt
    /\ thr' = [thr EXCEPT ![t].cert = IF create_ok THEN next_cert + 1 ELSE 0,
                          ![t].pc = IF create_ok THEN "insert" ELSE "return"]
    /\ UNCHANGED <<phase, init_ret, key_loads, statics, server_certificates, refcnt,
                   frees, held, cert_frees, cert_held, cert_spec, lock, returned, ev>>

\* mutant: the thread looks the identity up again before it inserts
ArrayAfterInsert_Rechecked(hostname, ipv4_nbo, cert, strdup_ok) ==
    IF get_server_certificate(hostname, ipv4_nbo) # 0
    THEN server_certificates
    ELSE add_server_certificate(hostname, ipv4_nbo, cert, strdup_ok)

\* the array after a thread's add_server_certificate: the entry is appended
\* whatever the array holds by now
ArrayAfterInsert(hostname, ipv4_nbo, cert, strdup_ok) ==
    add_server_certificate(hostname, ipv4_nbo, cert, strdup_ok)

\* entry = add_server_certificate(hostname, ipv4_nbo, cert), X509_free(cert) if
\* it failed
Insert(t, realloc_ok, strdup_ok, race) ==
    /\ phase = "running"
    /\ thr[t].pc = "insert"
    /\ race => OtherAt(t, {"lookup", "insert"})
    /\ (race \/ ~realloc_ok \/ thr[t].hostname = NULL) => strdup_ok
    /\ race => realloc_ok
    /\ IF race THEN Crash
       ELSE LET cert == thr[t].cert
                after == ArrayAfterInsert(thr[t].hostname, thr[t].ipv4_nbo, cert,
                                          strdup_ok)
            IN  /\ server_certificates' = IF realloc_ok THEN after
                                          ELSE server_certificates
                /\ cert_spec' = IF realloc_ok
                                THEN [cert_spec EXCEPT ![cert] =
                                        CreateArg(0, thr[t].hostname, thr[t].ipv4_nbo)]
                                ELSE cert_spec
                /\ cert_refcnt' = IF realloc_ok THEN cert_refcnt
                                  ELSE [cert_refcnt EXCEPT ![cert] = DownRef(@)]
                /\ cert_frees' = IF ~realloc_ok /\ Deallocates(cert_refcnt'[cert])
                                 THEN [cert_frees EXCEPT ![cert] = @ + 1]
                                 ELSE cert_frees
                /\ thr' = [thr EXCEPT ![t].entry = IF realloc_ok THEN Len(after) ELSE 0,
                                      ![t].cnt = IF realloc_ok THEN Len(after) ELSE 0,
                                      ![t].pc = "return"]
                /\ UNCHANGED <<phase, init_ret, key_loads, statics, refcnt, frees, held,
                               next_cert, cert_held, lock, returned, ev>>

\* which way the thread's call went
ThreadPath(r) ==
    IF r.entry # 0 THEN (IF r.cert # 0 THEN "inserted" ELSE "hit")
    ELSE (IF r.cert # 0 THEN "insert_failed" ELSE "create_failed")

\* if (!entry) return NULL; X509_up_ref(entry->certificate); return
\* entry->certificate;  the caller then drops the lock, if it took it
Return(t, race) ==
    /\ phase = "running"
    /\ thr[t].pc = "return"
    /\ race => (thr[t].entry # 0 /\ server_certificate_cnt > thr[t].cnt)
    /\ IF race THEN Crash
       ELSE LET r == thr[t]
                ret == IF r.entry # 0 THEN server_certificates[r.entry].certificate
                       ELSE 0
            IN  /\ cert_refcnt' = IF ret # 0 THEN [cert_refcnt EXCEPT ![ret] = UpRef(@)]
                                  ELSE cert_refcnt
                /\ cert_held' = IF ret # 0 THEN [cert_held EXCEPT ![ret] = @ + 1]
                                ELSE cert_held
                /\ returned' = IF ret # 0
                               THEN [returned EXCEPT ![<<r.hostname, r.ipv4_nbo>>] =
                                        @ \cup {ret}]
                               ELSE returned
                /\ ev' = [Event("forge_certificate_for_server", r.hostname, r.ipv4_nbo,
                                ThreadPath(r), ret, ret = 0)
                            EXCEPT !.certspec =
                                CreateArg(IF ThreadPath(r) = "hit" THEN r.entry ELSE 0,
                                          r.hostname, r.ipv4_nbo)]
                /\ thr' = [thr EXCEPT ![t] = Idle]
                /\ lock' = NULL
                /\ UNCHANGED <<phase, init_ret, key_loads, statics, server_certificates,
                               refcnt, frees, held, next_cert, cert_frees, cert_spec>>

\* the steps of a call once entered
ThreadSteps ==
    \/ \E t \in Threads, race \in BOOLEAN : Lookup(t, race)
    \/ \E t \in Threads, create_ok \in BOOLEAN : Create(t, create_ok)
    \/ \E t \in Threads, realloc_ok \in BOOLEAN, strdup_ok \in BOOLEAN,
          race \in BOOLEAN : Insert(t, realloc_ok, strdup_ok, race)
    \/ \E t \in Threads, race \in BOOLEAN : Return(t, race)

(***************************************************************************)
(* The specification                                                       *)
(***************************************************************************)
\* the process's own calls: startup, teardown
Lifecycle ==
    \/ certforgery_init
    \/ certforgery_deinit

\* the accessors of the long-lived objects and the release of what they returned
StaticHandles ==
    \/ \E crash \in BOOLEAN : get_forged_root_certificate(crash)
    \/ \E crash \in BOOLEAN : get_forged_root_key(crash)
    \/ \E crash \in BOOLEAN : get_tls_server_key(crash)
    \/ \E crash \in BOOLEAN : get_tls_client_key(crash)
    \/ \E o \in StaticObjs : ReleaseStatic(o)

\* forging and the release of what it returned
Forging ==
    \/ \E rq \in Requests,
          create_ok \in BOOLEAN, realloc_ok \in BOOLEAN, strdup_ok \in BOOLEAN :
            forge_certificate_for_server(rq[1], rq[2], create_ok, realloc_ok,
                                         strdup_ok)
    \/ \E c \in CertIds : ReleaseCert(c)

Next == Lifecycle \/ StaticHandles \/ Forging

Spec == Init /\ [][Next]_vars

\* startup, the accessors and teardown, without forging
NextKeys == Lifecycle \/ StaticHandles

SpecKeys == Init /\ [][NextKeys]_vars

\* startup, forging and teardown, without the accessors
NextForge == Lifecycle \/ Forging

SpecForge == Init /\ [][NextForge]_vars

\* the engine's operations alone (startup, forging, the accessors, teardown):
\* what they return is kept, never released
NextOps ==
    \/ Lifecycle
    \/ \E crash \in BOOLEAN : get_forged_root_certificate(crash)
    \/ \E crash \in BOOLEAN : get_forged_root_key(crash)
    \/ \E crash \in BOOLEAN : get_tls_server_key(crash)
    \/ \E crash \in BOOLEAN : get_tls_client_key(crash)
    \/ \E rq \in Requests,
          create_ok \in BOOLEAN, realloc_ok \in BOOLEAN, strdup_ok \in BOOLEAN :
            forge_certificate_for_server(rq[1], rq[2], create_ok, realloc_ok,
                                         strdup_ok)

SpecOps == Init /\ [][NextOps]_vars

\* the threads as the code is written: no lock around the call
NextThreads ==
    \/ Lifecycle
    \/ \E t \in Threads, rq \in ThreadRequests : Enter(t, rq[1], rq[2], FALSE)
    \/ ThreadSteps

SpecThreads == Init /\ [][NextThreads]_vars

\* the threads with every call made under one lock over the cache
NextLocked ==
    \/ Lifecycle
    \/ \E t \in Threads, rq \in ThreadRequests : Enter(t, rq[1], rq[2], TRUE)
    \/ ThreadSteps

SpecLocked == Init /\ [][NextLocked]_vars

TypeOK ==
    /\ phase \in {"boot", "running", "init_failed", "down", "crashed"}
    /\ init_ret \in {"none", "true", "false"}
    /\ key_loads \in 0..3
    /\ next_cert \in 0..MaxCerts
    /\ \A i \in 1..server_certificate_cnt :
          /\ server_certificates[i].hostname \in HostnameArgs
          /\ server_certificates[i].ipv4_nbo \in Addrs
          /\ server_certificates[i].certificate \in 1..next_cert

(***************************************************************************)
(* Properties of the cache and of forge_certificate_for_server             *)
(***************************************************************************)
IsForge(e) == e.op = "forge_certificate_for_server"
Requested(e) == <<e.hostname, e.ipv4_nbo>>
IdentityOf(entry) == <<entry.hostname, entry.ipv4_nbo>>

\* both hostnames absent or both present and textually equal, and equal addresses
SameIdentity(e1, e2) ==
    /\ \/ e1.hostname = NULL /\ e2.hostname = NULL
       \/ /\ e1.hostname # NULL
          /\ e2.hostname # NULL
          /\ Deref(e1.hostname) = Deref(e2.hostname)
    /\ e1.ipv4_nbo = e2.ipv4_nbo

\* C1: after any sequence of forge_certificate_for_server calls the cache never
\* holds two entries with the same identity (hostname-or-absent, address).
C1_OneEntryPerIdentity ==
    \A i \in 1..server_certificate_cnt : \A j \in 1..server_certificate_cnt :
        i # j => ~SameIdentity(server_certificates[i], server_certificates[j])

\* C2: once forge_certificate_for_server(h, a) has returned a certificate, every
\* later call with the same (h, a) returns that same certificate: no identity is
\* ever handed two certificates, and no call fails for an identity served before.
C2_IdempotentReuse ==
    /\ \A id \in Identities : Cardinality(returned[id]) <= 1
    /\ (IsForge(ev) /\ ev.null) => returned[Requested(ev)] = {}

\* C3: requests for different identities never collide: they are never handed
\* the same certificate, every returned certificate sits in an entry of the
\* requested identity, and a lookup with an absent hostname matches no entry with
\* a present hostname and vice versa.
C3_DistinctIdentitiesDistinctCertificates ==
    /\ \A id1 \in Identities : \A id2 \in Identities :
          id1 # id2 => returned[id1] \cap returned[id2] = {}
    /\ \A id \in Identities : \A c \in returned[id] :
          \E i \in 1..server_certificate_cnt :
              /\ server_certificates[i].certificate = c
              /\ IdentityOf(server_certificates[i]) = id
    /\ \A i \in 1..server_certificate_cnt : \A id \in Identities :
          EntryMatches(server_certificates[i], id[1], id[2])
              => ((id[1] = NULL) <=> (server_certificates[i].hostname = NULL))

\* C4: a call that misses the cache and whose certificate construction fails
\* returns NULL and leaves the cache, its length and every entry, as it was.
C4_ConstructionFailureLeavesCache ==
    [][(IsForge(ev') /\ ev'.path = "create_failed")
          => /\ ev'.null
             /\ ev'.cert = 0
             /\ get_server_certificate(ev'.hostname, ev'.ipv4_nbo) = 0
             /\ server_certificates' = server_certificates
             /\ next_cert' = next_cert]_vars

C4_Witness ==
    /\ IsForge(ev)
    /\ ev.path = "create_failed"
    /\ ev.null
    /\ server_certificate_cnt > 0

\* C5: a call that constructs a certificate and then fails to insert it releases
\* the new certificate exactly once (its count goes from 1 to 0, it is
\* deallocated once), returns NULL and leaves the cache as it was.
C5_InsertFailureReleasesCertificate ==
    [][(IsForge(ev') /\ ev'.path = "insert_failed")
          => /\ ev'.null
             /\ ev'.cert = 0
             /\ server_certificates' = server_certificates
             /\ next_cert' = next_cert + 1
             /\ cert_refcnt[next_cert'] = 0
             /\ cert_refcnt'[next_cert'] = 0
             /\ cert_frees[next_cert'] = 0
             /\ cert_frees'[next_cert'] = 1
             /\ \A c \in 1..next_cert : cert_refcnt'[c] = cert_refcnt[c]]_vars

C5_Witness ==
    /\ IsForge(ev)
    /\ ev.path = "insert_failed"
    /\ ev.null
    /\ server_certificate_cnt > 0
    /\ cert_refcnt[next_cert] = 0
    /\ cert_frees[next_cert] = 1

(***************************************************************************)
(* Properties of startup, the accessors and teardown                       *)
(***************************************************************************)
IsInit(e) == e.op = "certforgery_init"

\* C6: if the configuration directory cannot be created, certforgery_init
\* reports failure and loads no key: openssl_load_stored_key is not called.
C6_NoDirectoryNoKeys ==
    (IsInit(ev) /\ ev.env.makedirs_failed)
        => /\ init_ret = "false"
           /\ key_loads = 0
           /\ root_ca_key = NULL /\ server_key = NULL /\ client_key = NULL

\* C7: if openssl_load_stored_key fails for one of the three keys, or one of
\* their paths cannot be built, certforgery_init returns false; it never returns
\* true with one of the three keys absent.
C7_KeyFailureFailsInit ==
    /\ (IsInit(ev) /\ \E f \in KeyFiles : ev.env.path_failed[f] \/ ev.env.key_failed[f])
          => init_ret = "false"
    /\ init_ret = "true"
          => root_ca_key # NULL /\ server_key # NULL /\ client_key # NULL

\* the root key is loaded, the server key's load fails: a failed start that
\* leaves one key behind
C7_Witness ==
    /\ IsInit(ev)
    /\ \A f \in Files : ~ev.env.path_failed[f]
    /\ ~ev.env.key_failed["root.key"]
    /\ ev.env.key_failed["server.key"]
    /\ init_ret = "false"
    /\ root_ca_key # NULL
    /\ server_key = NULL
    /\ key_loads = 2

\* C8: if openssl_load_stored_certificate fails for the root certificate,
\* certforgery_init reports failure: after a successful certforgery_init the root
\* certificate is present and get_forged_root_certificate never returns NULL.
C8_RootCertificateFailureFailsInit ==
    /\ (IsInit(ev) /\ ev.env.cert_failed) => init_ret = "false"
    /\ init_ret = "true" => root_ca # NULL
    /\ ev.op = "get_forged_root_certificate" => ~ev.null

\* C9: with the root certificate loaded, its reference count is the engine's
\* reference (until certforgery_deinit) plus one per handle callers hold: it is
\* never negative, and it reaches zero, once, exactly when certforgery_deinit has
\* run and the last holder has released its handle.
C9_RootCertificateAccounting ==
    /\ refcnt["root_ca"] >= 0
    /\ frees["root_ca"] <= 1
    /\ (init_ret = "true" /\ root_ca # NULL) =>
          /\ refcnt["root_ca"] = held["root_ca"] + (IF phase = "down" THEN 0 ELSE 1)
          /\ (frees["root_ca"] = 1) <=> (phase = "down" /\ held["root_ca"] = 0)
          /\ (refcnt["root_ca"] = 0) <=> (frees["root_ca"] = 1)

\* a caller held the root certificate over certforgery_deinit and has just
\* released it, as the last holder
C9_Witness ==
    /\ phase = "down"
    /\ root_ca # NULL
    /\ ev.op = "release"
    /\ ev.path = "root_ca"
    /\ held["root_ca"] = 0
    /\ refcnt["root_ca"] = 0
    /\ frees["root_ca"] = 1

\* C10: certforgery_deinit releases the engine's own references only: after it,
\* every object holds exactly the references of the handles callers still hold,
\* so an object with an unreleased handle is not deallocated.
C10_TeardownKeepsHeldHandles ==
    phase = "down" =>
        \A o \in StaticObjs :
            /\ refcnt[o] = held[o]
            /\ held[o] > 0 => (refcnt[o] >= 1 /\ frees[o] = 0)

\* after teardown a caller still holds the server key and another the root
\* certificate
C10_Witness ==
    /\ phase = "down"
    /\ held["server_key"] = 1
    /\ held["root_ca"] = 1
    /\ refcnt["server_key"] = 1
    /\ refcnt["root_ca"] = 1

(***************************************************************************)
(* Properties of the certificate specification                             *)
(***************************************************************************)
\* the forge call has invoked openssl_create_certificate
Constructs(e) == IsForge(e) /\ e.certspec # NULL

\* a specification that names the objects loaded at startup: the server key as
\* subject, the root CA key and the root certificate as issuer, not a CA
UnderStartupRoot(cs) ==
    /\ cs.subject_pubkey = Ptr("server_key")
    /\ cs.issuer_privkey = Ptr("root_ca_key")
    /\ cs.issuer_certificate = Ptr("root_ca")
    /\ cs.is_ca_certificate = FALSE

\* C11: between a successful certforgery_init and certforgery_deinit the root CA
\* key, the root certificate and the server key stay the objects loaded at
\* startup, every specification forge_certificate_for_server passes to
\* openssl_create_certificate names that server key as subject public key, that
\* root CA key as issuer private key, that root certificate as issuer certificate
\* and is not a CA, and so does the specification of every cached certificate.
C11_LeafsIssuedUnderStartupRoot ==
    /\ [][phase = "running" => statics' = statics]_vars
    /\ [](Constructs(ev)
            => /\ Deref(ev.certspec).subject_pubkey = server_key
               /\ Deref(ev.certspec).issuer_privkey = root_ca_key
               /\ Deref(ev.certspec).issuer_certificate = root_ca
               /\ UnderStartupRoot(Deref(ev.certspec)))
    /\ [](\A i \in 1..server_certificate_cnt :
            UnderStartupRoot(Deref(cert_spec[server_certificates[i].certificate])))

\* the addresses of the model in dotted-decimal notation
AddrText == (16777226 :> "10.0.0.1") @@ (33554442 :> "10.0.0.2")

\* C12: on a miss the specification handed to openssl_create_certificate has
\* subject-alternative IPv4 address = the requested address; with a hostname its
\* common name and its subject-alternative DNS hostname are the hostname; without
\* one its common name is the dotted-decimal text of the address and it has no
\* subject-alternative DNS hostname.
C12_SubjectNaming ==
    Constructs(ev) =>
        LET cs == Deref(ev.certspec)
        IN  /\ cs.subject_alternative_ipv4_address = ev.ipv4_nbo
            /\ ev.hostname # NULL
                  => /\ cs.common_name = ev.hostname
                     /\ cs.subject_alternative_dns_hostname = ev.hostname
            /\ ev.hostname = NULL
                  => /\ cs.common_name = Ptr(AddrText[ev.ipv4_nbo])
                     /\ cs.subject_alternative_dns_hostname = NULL

\* a certificate was forged and cached for 10.0.0.2 without a hostname
C12_Witness ==
    /\ Constructs(ev)
    /\ ev.path = "inserted"
    /\ ev.hostname = NULL
    /\ ev.ipv4_nbo = 33554442
    /\ Deref(ev.certspec).common_name = Ptr("10.0.0.2")
    /\ Deref(cert_spec[ev.cert]).common_name = Ptr("10.0.0.2")

(***************************************************************************)
(* Properties of the cache over the engine's lifetime                      *)
(***************************************************************************)
\* C15: the cache is append-only: no operation (forging, an accessor,
\* certforgery_deinit) makes it shorter, only forge_certificate_for_server makes
\* it longer and by one entry per call, and every entry keeps its position, its
\* hostname, its address and its certificate.
C15_CacheAppendOnly ==
    [][/\ Len(server_certificates') >= Len(server_certificates)
       /\ Len(server_certificates') <= Len(server_certificates) + 1
       /\ Len(server_certificates') > Len(server_certificates) => IsForge(ev')
       /\ \A i \in 1..Len(server_certificates) :
             server_certificates'[i] = server_certificates[i]]_vars

\* an accessor and two inserting forge calls ran, then certforgery_deinit, and
\* both entries are still there, in the order of their insertion
C15_Witness ==
    /\ phase = "down"
    /\ ev.op = "certforgery_deinit"
    /\ KeyHandles > 0
    /\ server_certificate_cnt = 2
    /\ server_certificates[1].certificate = 1
    /\ server_certificates[2].certificate = 2

\* C16: on a cache hit forge_certificate_for_server does not call
\* openssl_create_certificate and leaves the cache as it was; it increases the
\* reference count of the cached certificate by exactly one, returns that
\* certificate and changes nothing else of the engine.
C16_HitOnlyAddsReference ==
    [][(IsForge(ev') /\ ev'.path = "hit")
          => LET entry == get_server_certificate(ev'.hostname, ev'.ipv4_nbo)
                 cert == server_certificates[entry].certificate
             IN  /\ entry # 0
                 /\ ev'.certspec = NULL
                 /\ next_cert' = next_cert
                 /\ server_certificates' = server_certificates
                 /\ cert_spec' = cert_spec
                 /\ cert_refcnt' = [cert_refcnt EXCEPT ![cert] = @ + 1]
                 /\ cert_frees' = cert_frees
                 /\ ev'.cert = cert
                 /\ ~ev'.null
                 /\ UNCHANGED <<phase, statics, refcnt, frees>>]_vars

\* the second request for an identity hit the entry of the first, whose handle
\* is still held: the cache's reference and two handles
C16_Witness ==
    /\ IsForge(ev)
    /\ ev.path = "hit"
    /\ ev.certspec = NULL
    /\ server_certificate_cnt = 1
    /\ next_cert = 1
    /\ ev.cert = 1
    /\ cert_refcnt[1] = 3

\* the certificates the cache holds
Cached == {server_certificates[i].certificate : i \in 1..server_certificate_cnt}

\* C17: the reference count of every cached certificate is 1, the cache's own
\* reference, plus the number of handles forge_certificate_for_server returned
\* for it and their holders have not released; it is never zero and the
\* certificate is never deallocated while cached, so a handle stays valid, and
\* names the certificate built for it, whatever is inserted afterwards.
C17_CachedCertificateAccounting ==
    /\ \A i \in 1..server_certificate_cnt : \A j \in 1..server_certificate_cnt :
          server_certificates[i].certificate = server_certificates[j].certificate
              => i = j
    /\ \A c \in Cached :
          /\ cert_refcnt[c] = 1 + cert_held[c]
          /\ cert_refcnt[c] >= 1
          /\ cert_frees[c] = 0
          /\ cert_spec[c] # NULL
    /\ \A c \in CertIds : cert_held[c] > 0 => c \in Cached

\* a handle on certificate 1 is held while a second entry is inserted
C17_Witness ==
    /\ IsForge(ev)
    /\ ev.path = "inserted"
    /\ ev.cert = 2
    /\ server_certificate_cnt = 2
    /\ server_certificates[1].certificate = 1
    /\ cert_held[1] = 1
    /\ cert_refcnt[1] = 2
    /\ cert_frees[1] = 0

\* C18: the entry add_server_certificate appends records the identity it was
\* asked to store, whatever its allocations answer: after an inserting call the
\* last entry has the requested hostname (absent iff the requested one is
\* absent), the requested address and the new certificate; so the certificate
\* of an entry without hostname was built with the address as common name and
\* without a DNS name.
C18_EntryRecordsRequestedIdentity ==
    /\ (IsForge(ev) /\ ev.path = "inserted")
          => LET e == server_certificates[server_certificate_cnt]
             IN  /\ (e.hostname = NULL) <=> (ev.hostname = NULL)
                 /\ e.hostname = ev.hostname
                 /\ e.ipv4_nbo = ev.ipv4_nbo
                 /\ e.certificate = ev.cert
    /\ \A i \in 1..server_certificate_cnt :
          server_certificates[i].hostname = NULL
              => LET cs == Deref(cert_spec[server_certificates[i].certificate])
                 IN  /\ cs.common_name = Ptr(AddrText[server_certificates[i].ipv4_nbo])
                     /\ cs.subject_alternative_dns_hostname = NULL

\* the forge call returned NULL
Failed(e) == IsForge(e) /\ e.null

Inserted(t) == thr[t].pc = "insert" /\ thr'[t].pc = "return" /\ thr'[t].entry # 0

\* C14: without a lock nothing between a thread's lookup and its insertion looks
\* at the cache again: a thread that missed appends an entry with the
\* certificate it built whatever the other threads have inserted meanwhile, and
\* the entries carry pairwise different certificates; so two threads that both
\* miss for one identity leave two entries and two certificates for it.
C14_UnlockedThreadsBothInsert ==
    /\ [][\A t \in Threads :
            Inserted(t)
                => /\ Len(server_certificates') = Len(server_certificates) + 1
                   /\ thr'[t].entry = Len(server_certificates')
                   /\ server_certificates'[thr'[t].entry].certificate = thr[t].cert
                   /\ server_certificates'[thr'[t].entry].ipv4_nbo = thr[t].ipv4_nbo
                   /\ \A i \in 1..Len(server_certificates) :
                         server_certificates'[i] = server_certificates[i]]_vars
    /\ [](Cardinality(Cached) = server_certificate_cnt)

\* two threads asked for ("a.com", 10.0.0.1), both missed, both inserted and
\* both have returned: two entries with that identity, two certificates
C14_Witness ==
    /\ phase = "running"
    /\ \A t \in Threads : thr[t].pc = "idle"
    /\ server_certificate_cnt = 2
    /\ IdentityOf(server_certificates[1]) = <<Ptr("a.com"), 16777226>>
    /\ IdentityOf(server_certificates[2]) = <<Ptr("a.com"), 16777226>>
    /\ server_certificates[1].certificate # server_certificates[2].certificate
    /\ returned[<<Ptr("a.com"), 16777226>>] = {1, 2}
    /\ \A id \in Identities \ {<<Ptr("a.com"), 16777226>>} : returned[id] = {}
    /\ cert_held[1] = 1
    /\ cert_held[2] = 1

\* C13: with every call made as one critical section under a single lock over
\* the cache, whatever the number of threads and their interleaving, the cache
\* holds at most one entry per identity and all threads that are handed a
\* certificate for one identity are handed the same one.
C13_LockedOneEntryPerIdentity ==
    /\ \A i \in 1..server_certificate_cnt : \A j \in 1..server_certificate_cnt :
          SameIdentity(server_certificates[i], server_certificates[j]) => i = j
    /\ \A id \in Identities : \A c1 \in returned[id] : \A c2 \in returned[id] :
          c1 = c2

====
